---- MODULE Spec2Model ----
(***************************************************************************)
(* A model of package events (event.go): the Event record, its Clone, and  *)
(* the Args list with Get, Map, A and SortArgs.                            *)
(*                                                                         *)
(* Go slices are modelled with an explicit heap of backing arrays, so that *)
(* aliasing between an event and its clone is something the model can      *)
(* exhibit.  Strings are sequences of bytes; Go strings are immutable, so  *)
(* they are values and never live in the heap.                             *)
(***************************************************************************)
EXTENDS Integers, Sequences, FiniteSets, TLC

VARIABLES heap, ev, args, m, call, built, steps

vars == <<heap, ev, args, m, call, built, steps>>

(***************************************************************************)
(* Bounds of the model.                                                    *)
(***************************************************************************)
\* longest Args list of an initial event, and the length append stops at
MaxArgs == 2
\* longest Args list the list operations are tried on
MaxList == 3
\* number of distinct names a mapping may use
MaxKeys == 3
\* number of caller mutations applied after construction
MaxSteps == 2

(***************************************************************************)
(* Value domains.                                                          *)
(***************************************************************************)
\* the nil pointer of a slice that was declared and never made
NilPtr == 0
\* the address every zero-sized allocation shares
ZeroBase == 1

\* the nil interface value, the zero value of Arg.Value and of Get's result
NilValue == "nil"
Values == {"v1", "v2"}

\* names in an order that is not their sorted order; <<>> is the empty name
KeySeq == << <<2>>, <<1>>, <<1, 2>>, <<>>, <<2, 1>>, <<1, 1>> >>
KeySet(n) == {KeySeq[i] : i \in 1..n}

Texts == {<<>>, <<7, 8>>}
NewText == <<9>>
Times == {"t1", "t2"}

Arg(name, value) == [Name |-> name, Value |-> value]
\* the zero value of Arg, what make fills a new array with
ZeroArg == Arg(<<>>, NilValue)

NilSlice == [ptr |-> NilPtr, len |-> 0, cap |-> 0]

(***************************************************************************)
(* The heap: backing arrays by address.                                    *)
(***************************************************************************)
\* the elements of a slice, in order
Elems(h, s) == IF s.ptr = NilPtr THEN <<>> ELSE SubSeq(h[s.ptr], 1, s.len)

\* an address no live array has
Fresh(h) ==
    CHOOSE i \in 1..(Cardinality(DOMAIN h) + 1) :
        i \notin DOMAIN h /\ \A j \in 1..(i - 1) : j \in DOMAIN h

\* make(Args, n, k): a slice of n zero elements over an array of k
Make(h, n, k) ==
    IF k = 0
    THEN [heap |-> h, slice |-> [ptr |-> ZeroBase, len |-> 0, cap |-> 0]]
    ELSE LET p == Fresh(h)
         IN  [heap |-> (p :> [i \in 1..k |-> ZeroArg]) @@ h,
              slice |-> [ptr |-> p, len |-> n, cap |-> k]]

\* append(s, x): in place when the array has room, else into a larger array
Append1(h, s, x) ==
    IF s.len < s.cap
    THEN [heap |-> [h EXCEPT ![s.ptr][s.len + 1] = x],
          slice |-> [s EXCEPT !.len = s.len + 1]]
    ELSE LET k == IF s.cap = 0 THEN 1 ELSE 2 * s.cap
             p == Fresh(h)
             old == Elems(h, s)
         IN  [heap |-> (p :> [i \in 1..k |->
                                 IF i <= s.len THEN old[i]
                                 ELSE IF i = s.len + 1 THEN x ELSE ZeroArg]) @@ h,
              slice |-> [ptr |-> p, len |-> s.len + 1, cap |-> k]]

\* the arrays some slice of the state still points to
Live(h, evs, a) ==
    LET roots == {ZeroBase, a.ptr} \cup {evs[t].Args.ptr : t \in DOMAIN evs}
    IN  [p \in (DOMAIN h) \cap roots |-> h[p]]

(***************************************************************************)
(* Event.Clone.                                                            *)
(***************************************************************************)
\* cloneValue on the scalar values of this model: a copy by value
cloneValue(v) == v

\* make([]byte, n)
MakeBytes(n) == [i \in 1..n |-> 0]

\* the builtin copy(dst, src) into a byte slice
copy(dst, src) == [i \in 1..Len(dst) |-> IF i <= Len(src) THEN src[i] ELSE dst[i]]

\* the byte slice Clone builds for a text field; the nil slice is the empty one
CloneText(s) == IF Len(s) # 0 THEN copy(MakeBytes(Len(s)), s) ELSE <<>>


\* a Clone that hands the clone the original's slice
CloneArgsShared(h, e) == [heap |-> h, slice |-> e.Args]

\* the Args of the clone: a new array filled element by element
CloneArgs(h, e) ==
    LET n == e.Args.len
        src == Elems(h, e.Args)
        mk == Make(h, n, n)
    IN  IF n # 0
        THEN [heap |-> [mk.heap EXCEPT ![mk.slice.ptr] =
                           [i \in 1..n |-> Arg(src[i].Name, cloneValue(src[i].Value))]],
              slice |-> mk.slice]
        ELSE [heap |-> h, slice |-> NilSlice]


\* a Clone that leaves Debug at its zero value
CloneDropDebug(h, e) ==
    LET a == CloneArgs(h, e)
    IN  [heap |-> a.heap,
         event |-> [Message |-> CloneText(e.Message),
                    Source |-> CloneText(e.Source),
                    Args |-> a.slice,
                    Time |-> e.Time,
                    Debug |-> FALSE]]

Clone(h, e) ==
    LET a == CloneArgs(h, e)
    IN  [heap |-> a.heap,
         event |-> [Message |-> CloneText(e.Message),
                    Source |-> CloneText(e.Source),
                    Args |-> a.slice,
                    Time |-> e.Time,
                    Debug |-> e.Debug]]

(***************************************************************************)
(* Args.Get, Args.Map, A.                                                  *)
(***************************************************************************)
RECURSIVE GetFrom(_, _, _)
GetFrom(list, name, i) ==
    IF i > Len(list) THEN [v |-> NilValue, ok |-> FALSE]
    ELSE IF list[i].Name = name THEN [v |-> list[i].Value, ok |-> TRUE]
    ELSE GetFrom(list, name, i + 1)


\* a Get whose loop has no break: the last match overwrites the first
RECURSIVE GetNoBreakFrom(_, _, _, _)
GetNoBreakFrom(list, name, i, r) ==
    IF i > Len(list) THEN r
    ELSE IF list[i].Name = name
         THEN GetNoBreakFrom(list, name, i + 1, [v |-> list[i].Value, ok |-> TRUE])
    ELSE GetNoBreakFrom(list, name, i + 1, r)

GetNoBreak(list, name) == GetNoBreakFrom(list, name, 1, [v |-> NilValue, ok |-> FALSE])

Get(list, name) == GetFrom(list, name, 1)

\* a Go map: nil or made, and its entries
MakeMap == [nil |-> FALSE, kv |-> <<>>]
NilMap == [nil |-> TRUE, kv |-> <<>>]

RECURSIVE MapFrom(_, _, _)
MapFrom(list, i, kv) ==
    IF i > Len(list) THEN kv
    ELSE MapFrom(list, i + 1, (list[i].Name :> list[i].Value) @@ kv)


\* a Map that keeps the value a name already has
RECURSIVE MapKeepFrom(_, _, _)
MapKeepFrom(list, i, kv) ==
    IF i > Len(list) THEN kv
    ELSE MapKeepFrom(list, i + 1, kv @@ (list[i].Name :> list[i].Value))

MapKeepFirst(list) == [MakeMap EXCEPT !.kv = MapKeepFrom(list, 1, MakeMap.kv)]

Map(list) == [MakeMap EXCEPT !.kv = MapFrom(list, 1, MakeMap.kv)]

\* the orders in which a range over the map may visit its keys
Orders(mp) ==
    LET K == DOMAIN mp.kv
    IN  {s \in [1..Cardinality(K) -> K] : \A i, j \in DOMAIN s : i # j => s[i] # s[j]}

RECURSIVE AFrom(_, _, _, _)
AFrom(r, mp, order, i) ==
    IF i > Len(order) THEN r
    ELSE AFrom(Append1(r.heap, r.slice, Arg(order[i], mp.kv[order[i]])), mp, order, i + 1)


\* an A that makes the list with length len(m) instead of capacity len(m)
AMakeLen(h, mp, order) ==
    AFrom(Make(h, Cardinality(DOMAIN mp.kv), Cardinality(DOMAIN mp.kv)), mp, order, 1)

\* an A that declares the list and never makes it
ANoMake(h, mp, order) == AFrom([heap |-> h, slice |-> NilSlice], mp, order, 1)

\* A(m), the range visiting the keys in the given order
A(h, mp, order) == AFrom(Make(h, 0, Cardinality(DOMAIN mp.kv)), mp, order, 1)

(***************************************************************************)
(* SortArgs.                                                               *)
(***************************************************************************)
\* s < t on Go strings: bytewise lexicographic
RECURSIVE StrLess(_, _)
StrLess(s, t) ==
    IF t = <<>> THEN FALSE
    ELSE IF s = <<>> THEN TRUE
    ELSE IF Head(s) # Head(t) THEN Head(s) < Head(t)
    ELSE StrLess(Tail(s), Tail(t))

byArgNameLen(a) == Len(a)

\* a Less that compares the wrong way round
byArgNameGreater(a, i, j) == StrLess(a[j].Name, a[i].Name)

byArgNameLess(a, i, j) == StrLess(a[i].Name, a[j].Name)

\* a Swap that exchanges the names and leaves the values where they are
byArgNameSwapNames(a, i, j) == [a EXCEPT ![i].Name = a[j].Name, ![j].Name = a[i].Name]

byArgNameSwap(a, i, j) == [a EXCEPT ![i] = a[j], ![j] = a[i]]

\* every arrangement of the first n elements that calls of Swap can reach
RECURSIVE SwapClosure(_, _)
SwapClosure(S, n) ==
    LET T == S \cup {byArgNameSwap(a, i, j) : a \in S, i \in 1..n, j \in 1..n}
    IN  IF T = S THEN S ELSE SwapClosure(T, n)

\* sort.Sort(data): it reads data through Len and Less, moves it through Swap,
\* and returns with no pair out of order; it is not stable, so any such
\* arrangement may be the one it leaves
sortSort(a) ==
    LET n == byArgNameLen(a)
    IN  {b \in SwapClosure({a}, n) :
            \A i, j \in 1..n : i < j => ~byArgNameLess(b, j, i)}

\* SortArgs(args), in place: the heaps it may leave
SortArgs(h, s) ==
    IF s.ptr = NilPtr THEN {h}
    ELSE {[h EXCEPT ![s.ptr] = b \o SubSeq(h[s.ptr], s.len + 1, s.cap)] :
             b \in sortSort(Elems(h, s))}

(***************************************************************************)
(* The calls a program makes, one action each.  call records the last call *)
(* with its arguments and results.                                         *)
(***************************************************************************)
SliceOf(t) == IF t = "args" THEN args ELSE ev[t].Args

\* the caller stores slice s back where t's slice lives
Store(t, s, h) ==
    /\ ev' = IF t = "args" THEN ev ELSE [ev EXCEPT ![t].Args = s]
    /\ args' = IF t = "args" THEN s ELSE args
    /\ heap' = Live(h, ev', args')

\* a Clone that sorts the receiver's Args in place before it copies them
CallCloneSorting ==
    LET h == CHOOSE x \in SortArgs(heap, ev.e.Args) : TRUE
        r == Clone(h, ev.e)
    IN  /\ ev' = [e |-> ev.e, c |-> r.event]
        /\ heap' = Live(r.heap, ev', args)
        /\ call' = [op |-> "Clone"]
        /\ UNCHANGED <<args, m, built, steps>>

\* c := e.Clone()
CallClone ==
    LET r == Clone(heap, ev.e)
    IN  /\ ev' = [e |-> ev.e, c |-> r.event]
        /\ heap' = Live(r.heap, ev', args)
        /\ call' = [op |-> "Clone"]
        /\ UNCHANGED <<args, m, built, steps>>

\* v, ok := t.Get(name)
CallGet(t, name) ==
    LET r == Get(Elems(heap, SliceOf(t)), name)
    IN  /\ call' = [op |-> "Get", target |-> t, name |-> name, v |-> r.v, ok |-> r.ok]
        /\ UNCHANGED <<heap, ev, args, m, built, steps>>

\* ret := t.Map()
CallMap(t) ==
    /\ call' = [op |-> "Map", target |-> t, ret |-> Map(Elems(heap, SliceOf(t)))]
    /\ UNCHANGED <<heap, ev, args, m, built, steps>>

\* args := A(m)
CallA ==
    \E order \in Orders(m) :
        LET r == A(heap, m, order)
        IN  /\ args' = r.slice
            /\ heap' = Live(r.heap, ev, args')
            /\ built' = TRUE
            /\ call' = [op |-> "A", order |-> order]
            /\ UNCHANGED <<ev, m, steps>>

\* SortArgs(t)
CallSortArgs(t) ==
    \E h \in SortArgs(heap, SliceOf(t)) :
        /\ heap' = h
        /\ call' = [op |-> "SortArgs", target |-> t, in |-> Elems(heap, SliceOf(t))]
        /\ UNCHANGED <<ev, args, m, built, steps>>

(***************************************************************************)
(* What a holder of an event may do to it: assign its fields, assign the   *)
(* slots of its Args, append to its Args.                                  *)
(***************************************************************************)
NewName == <<3>>
NewValue == "v3"

SetMessage(t) ==
    /\ steps < MaxSteps
    /\ ev' = [ev EXCEPT ![t].Message = NewText]
    /\ call' = [op |-> "SetMessage", target |-> t]
    /\ steps' = steps + 1
    /\ UNCHANGED <<heap, args, m, built>>

SetSource(t) ==
    /\ steps < MaxSteps
    /\ ev' = [ev EXCEPT ![t].Source = NewText]
    /\ call' = [op |-> "SetSource", target |-> t]
    /\ steps' = steps + 1
    /\ UNCHANGED <<heap, args, m, built>>

SetArgName(t, i) ==
    /\ steps < MaxSteps
    /\ i \in 1..ev[t].Args.len
    /\ heap' = [heap EXCEPT ![ev[t].Args.ptr][i].Name = NewName]
    /\ call' = [op |-> "SetArgName", target |-> t]
    /\ steps' = steps + 1
    /\ UNCHANGED <<ev, args, m, built>>

SetArgValue(t, i) ==
    /\ steps < MaxSteps
    /\ i \in 1..ev[t].Args.len
    /\ heap' = [heap EXCEPT ![ev[t].Args.ptr][i].Value = NewValue]
    /\ call' = [op |-> "SetArgValue", target |-> t]
    /\ steps' = steps + 1
    /\ UNCHANGED <<ev, args, m, built>>

AppendArg(t) ==
    /\ steps < MaxSteps
    /\ ev[t].Args.len < MaxArgs
    /\ LET r == Append1(heap, ev[t].Args, Arg(NewName, NewValue))
       IN  Store(t, r.slice, r.heap)
    /\ call' = [op |-> "Append", target |-> t]
    /\ steps' = steps + 1
    /\ UNCHANGED <<m, built>>

SortEventArgs(t) ==
    /\ steps < MaxSteps
    /\ steps' = steps + 1
    /\ \E h \in SortArgs(heap, ev[t].Args) :
          /\ heap' = h
          /\ call' = [op |-> "SortArgs", target |-> t, in |-> Elems(heap, ev[t].Args)]
    /\ UNCHANGED <<ev, args, m, built>>

(***************************************************************************)
(* Initial states: an event as a composite literal builds it.              *)
(***************************************************************************)
ArgSet(K, V) == {Arg(k, v) : k \in K, v \in V}

\* the Args a literal may hold: nil, or a list of up to n elements
ListChoices(K, V, n) ==
    {[nil |-> TRUE, elems |-> <<>>]} \cup
    {[nil |-> FALSE, elems |-> l] : l \in UNION {[1..k -> ArgSet(K, V)] : k \in 0..n}}

Maps(K) ==
    {NilMap} \cup
    {[nil |-> FALSE, kv |-> f] : f \in UNION {[S -> Values] : S \in SUBSET K}}

\* the heap and slice of the literal Args{...}
Literal(l) ==
    LET base == (ZeroBase :> <<>>)
        mk == Make(base, Len(l.elems), Len(l.elems))
    IN  IF l.nil THEN [heap |-> base, slice |-> NilSlice]
        ELSE IF l.elems = <<>> THEN mk
        ELSE [heap |-> [mk.heap EXCEPT ![mk.slice.ptr] = l.elems], slice |-> mk.slice]

\* the same list as append leaves it when it grew the array past the length
Grown(l) ==
    LET n == Len(l.elems)
        mk == Make((ZeroBase :> <<>>), n, n + 1)
    IN  [heap |-> [mk.heap EXCEPT ![mk.slice.ptr] = l.elems \o <<ZeroArg>>],
         slice |-> mk.slice]

InitWith(msg, src, time, debug, lit, mp) ==
    /\ heap = lit.heap
    /\ ev = [e |-> [Message |-> msg, Source |-> src, Args |-> lit.slice,
                    Time |-> time, Debug |-> debug]]
    /\ args = NilSlice
    /\ m = mp
    /\ call = [op |-> "Init"]
    /\ built = FALSE
    /\ steps = 0

\* an event with every field populated, and later its clone, each in the
\* hands of a holder that may change it
Init ==
    \E msg \in Texts \ {<<>>}, src \in Texts \ {<<>>},
       l \in ListChoices(KeySet(2), {"v1"}, MaxArgs) :
        /\ l.elems # <<>>
        /\ \E lit \in {Literal(l), Grown(l)} : InitWith(msg, src, "t1", TRUE, lit, NilMap)

Next ==
    \/ CallClone
    \/ \E t \in DOMAIN ev : SetMessage(t)
    \/ \E t \in DOMAIN ev : SetSource(t)
    \/ \E t \in DOMAIN ev : \E i \in 1..MaxArgs : SetArgName(t, i)
    \/ \E t \in DOMAIN ev : \E i \in 1..MaxArgs : SetArgValue(t, i)
    \/ \E t \in DOMAIN ev : AppendArg(t)
    \/ \E t \in DOMAIN ev : SortEventArgs(t)

Spec == Init /\ [][Next]_vars

\* the calls that change nothing but SortArgs, on one event and one mapping
InitPure ==
    \E msg \in Texts, src \in Texts, time \in Times, debug \in BOOLEAN,
       l \in ListChoices(KeySet(2), Values, MaxArgs), mp \in Maps(KeySet(1)) :
        InitWith(msg, src, time, debug, Literal(l), mp)

NextPure ==
    \/ CallClone
    \/ \E t \in DOMAIN ev : \E name \in KeySet(2) : CallGet(t, name)
    \/ \E t \in DOMAIN ev : CallMap(t)
    \/ CallA

SpecPure == InitPure /\ [][NextPure]_vars

\* the list operations on every short list
InitList ==
    \E l \in ListChoices(KeySet(3), {NilValue, "v1"}, MaxList) :
        \E lit \in {Literal(l), Grown(l)} : InitWith(<<>>, <<>>, "t1", FALSE, lit, NilMap)

NextList ==
    \/ \E name \in KeySet(4) : CallGet("e", name)
    \/ CallMap("e")
    \/ CallSortArgs("e")

SpecList == InitList /\ [][NextList]_vars

\* lists built from every small mapping
InitMap ==
    \E mp \in Maps(KeySet(MaxKeys)) :
        InitWith(<<>>, <<>>, "t1", FALSE, Literal([nil |-> TRUE, elems |-> <<>>]), mp)

NextMap ==
    \/ CallA
    \/ \E name \in KeySet(MaxKeys + 1) : CallGet("args", name)
    \/ CallMap("args")
    \/ CallSortArgs("args")

SpecMap == InitMap /\ [][NextMap]_vars
(***************************************************************************)
(* What the claims speak of.                                               *)
(***************************************************************************)
\* an event as its holder sees it: the fields, and the Args as a sequence
EventView(t) ==
    [Message |-> ev[t].Message, Source |-> ev[t].Source,
     Args |-> Elems(heap, ev[t].Args), Time |-> ev[t].Time, Debug |-> ev[t].Debug]

Cloned == "c" \in DOMAIN ev
Other(t) == IF t = "e" THEN "c" ELSE "e"
Mutations == {"SetMessage", "SetSource", "SetArgName", "SetArgValue", "Append", "SortArgs"}

\* the list the last call was made on
Receiver == Elems(heap, SliceOf(call.target))
Hits(list, name) == {i \in 1..Len(list) : list[i].Name = name}
Least(S) == CHOOSE i \in S : \A j \in S : i <= j
Greatest(S) == CHOOSE i \in S : \A j \in S : j <= i
NamesOf(list) == {list[i].Name : i \in 1..Len(list)}
Count(list, x) == Cardinality({i \in 1..Len(list) : list[i] = x})
NameLeq(s, t) == s = t \/ StrLess(s, t)

\* C1: once the clone exists, no assignment to a field or to an Args slot of
\* one of the two events, no append to its Args and no sort of its Args
\* changes what the other event holds.
C1_CloneIndependence ==
    [][\A t \in {"e", "c"} :
          (Cloned /\ call'.op \in Mutations /\ call'.target = t)
              => EventView(Other(t))' = EventView(Other(t))]_vars

\* every kind of change has been made to the clone and it now differs from
\* the original in its Args
C1_Witness ==
    /\ Cloned
    /\ call.op \in Mutations
    /\ call.target = "c"
    /\ steps = MaxSteps
    /\ ev.e.Message # <<>> /\ ev.e.Source # <<>> /\ ev.e.Args.len > 0
    /\ EventView("c").Args # EventView("e").Args

\* C2: the clone of an event whose Message, Source and Args are empty has all
\* three empty, and its Args is nil exactly when the original's is.
C2_CloneOfEmptyPreservesNil ==
    (Cloned /\ ev.e.Message = <<>> /\ ev.e.Source = <<>> /\ ev.e.Args.len = 0)
        => /\ ev.c.Message = <<>>
           /\ ev.c.Source = <<>>
           /\ ev.c.Args.len = 0
           /\ (ev.c.Args.ptr = NilPtr) <=> (ev.e.Args.ptr = NilPtr)

\* C3: Get returns the value of the entry of least index with the name and
\* true, or the nil value and false when no entry has the name.
C3_GetFirstMatch ==
    call.op = "Get" =>
        LET hits == Hits(Receiver, call.name)
        IN  /\ call.ok <=> hits # {}
            /\ hits # {} => call.v = Receiver[Least(hits)].Value
            /\ hits = {} => call.v = NilValue

\* a Get for a name that two entries carry with different values
C3_Witness ==
    /\ call.op = "Get"
    /\ Cardinality(Hits(Receiver, call.name)) >= 2
    /\ Receiver[Least(Hits(Receiver, call.name))].Value
         # Receiver[Greatest(Hits(Receiver, call.name))].Value

\* C4: Map returns a made map whose keys are exactly the names of the list,
\* each with the value of the entry of greatest index that has the name.
C4_MapLastWins ==
    call.op = "Map" =>
        /\ ~call.ret.nil
        /\ DOMAIN call.ret.kv = NamesOf(Receiver)
        /\ \A n \in NamesOf(Receiver) :
              call.ret.kv[n] = Receiver[Greatest(Hits(Receiver, n))].Value

\* a Map of a list in which a name occurs twice with different values
C4_Witness ==
    /\ call.op = "Map"
    /\ \E n \in NamesOf(Receiver) :
          /\ Cardinality(Hits(Receiver, n)) >= 2
          /\ Receiver[Least(Hits(Receiver, n))].Value
               # Receiver[Greatest(Hits(Receiver, n))].Value

\* C5: whatever order A visited the mapping in, the Map of the list A built
\* has the keys of the mapping and the mapping's value for each.
C5_RoundTrip ==
    (built /\ call.op = "Map" /\ call.target = "args") =>
        /\ DOMAIN call.ret.kv = DOMAIN m.kv
        /\ \A k \in DOMAIN m.kv : call.ret.kv[k] = m.kv[k]

\* a Map of a list A built from several keys, visited out of name order
C5_Witness ==
    /\ built
    /\ call.op = "Map"
    /\ Cardinality(DOMAIN m.kv) >= 2
    /\ \E i \in 1..(Len(Receiver) - 1) : StrLess(Receiver[i + 1].Name, Receiver[i].Name)

\* C6: after SortArgs the names are in non-decreasing order and the list has
\* the length and the (Name, Value) pairs, each as many times, that it had
\* before; a list of at most one element is as it was.
C6_SortCorrect ==
    call.op = "SortArgs" =>
        /\ \A i \in 1..(Len(Receiver) - 1) : NameLeq(Receiver[i].Name, Receiver[i + 1].Name)
        /\ Len(Receiver) = Len(call.in)
        /\ \A i \in 1..Len(call.in) : Count(Receiver, call.in[i]) = Count(call.in, call.in[i])
        /\ Len(call.in) <= 1 => Receiver = call.in

\* a sort that moved entries of a list in which a name occurs twice
C6_Witness ==
    /\ call.op = "SortArgs"
    /\ Receiver # call.in
    /\ \E n \in NamesOf(Receiver) : Cardinality(Hits(Receiver, n)) >= 2

\* C7: the list A returns is not nil, has one entry for each key of the
\* mapping and no two entries of one name, each entry with the mapping's value.
C7_AOnePerKey ==
    call.op = "A" =>
        /\ args.ptr # NilPtr
        /\ args.len = Cardinality(DOMAIN m.kv)
        /\ \A i, j \in 1..args.len : i # j => Elems(heap, args)[i].Name # Elems(heap, args)[j].Name
        /\ \A i \in 1..args.len :
              /\ Elems(heap, args)[i].Name \in DOMAIN m.kv
              /\ Elems(heap, args)[i].Value = m.kv[Elems(heap, args)[i].Name]

\* A has built a list from a mapping of several keys
C7_Witness == call.op = "A" /\ args.len >= 2

\* C8: no call of Clone, Get, Map or A changes the original event, the
\* mapping, or the list Get or Map was called on.
C8_OnlySortMutates ==
    [][/\ EventView("e")' = EventView("e")
       /\ m' = m
       /\ \A t \in {"e", "c", "args"} :
              (call'.op \in {"Get", "Map"} /\ call'.target = t)
                  => Elems(heap, SliceOf(t))' = Elems(heap, SliceOf(t))]_vars

\* Clone, A and a Get or Map have all been called, on an unsorted list
C8_Witness ==
    /\ Cloned
    /\ built
    /\ call.op \in {"Get", "Map"}
    /\ \E i \in 1..(ev.e.Args.len - 1) :
          StrLess(EventView("e").Args[i + 1].Name, EventView("e").Args[i].Name)
    /\ DOMAIN m.kv # {}

\* C9: a clone has the Message, Source, Time and Debug of the original and an
\* Args of the same length with the same name and the same value at every
\* index, so Get and Map answer on it as on the original.
C9_ClonePreservesContent ==
    Cloned =>
        /\ ev.c.Message = ev.e.Message
        /\ ev.c.Source = ev.e.Source
        /\ ev.c.Time = ev.e.Time
        /\ ev.c.Debug = ev.e.Debug
        /\ ev.c.Args.len = ev.e.Args.len
        /\ \A i \in 1..ev.e.Args.len :
              /\ EventView("c").Args[i].Name = EventView("e").Args[i].Name
              /\ EventView("c").Args[i].Value = EventView("e").Args[i].Value
        /\ (call.op = "Get" /\ call.target = "c") =>
              [v |-> call.v, ok |-> call.ok] = Get(EventView("e").Args, call.name)
        /\ (call.op = "Map" /\ call.target = "c") => call.ret = Map(EventView("e").Args)

\* a clone of a debugging event with text and a name that occurs twice
C9_Witness ==
    /\ Cloned
    /\ call.op = "Get" /\ call.target = "c" /\ call.ok
    /\ ev.e.Debug /\ ev.e.Message # <<>> /\ ev.e.Source # <<>>
    /\ Cardinality(Hits(EventView("e").Args, call.name)) >= 2

\* the keys of the mapping in ascending order, each with its value
SortedFromMap(mp) ==
    CHOOSE s \in [1..Cardinality(DOMAIN mp.kv) -> ArgSet(DOMAIN mp.kv, Values)] :
        /\ \A i \in DOMAIN s : s[i].Value = mp.kv[s[i].Name]
        /\ \A i, j \in DOMAIN s : i < j => StrLess(s[i].Name, s[j].Name)

\* C10: whatever order A visited the mapping in and whichever arrangement the
\* sort chose, the list built by A and then sorted is the one sequence of the
\* mapping's keys in ascending order, each with its value.
C10_SortedAIsUnique ==
    (built /\ call.op = "SortArgs" /\ call.target = "args") =>
        Elems(heap, args) = SortedFromMap(m)

\* a sort that reordered a list A built from several keys
C10_Witness ==
    /\ built
    /\ call.op = "SortArgs"
    /\ Len(call.in) >= 3
    /\ Receiver # call.in
====
